---- MODULE Spec2Model ----
(***************************************************************************)
(* The RTSP relay of RTSP-Camera-Viewer: server/lib/rtsp-stream.ts         *)
(* (setupRtspStream, disconnectStream, the ffmpeg 'close' handler, the     *)
(* WebSocket 'connection' / 'close' handlers and the idle timeout), the    *)
(* two stream routes of server/routes.ts that drive it, and the URL check  *)
(* isValidRtspUrl of client/src/lib/camera-utils.ts.                       *)
(*                                                                         *)
(* Node runs every handler to completion; the only suspension point of     *)
(* setupRtspStream is the await on server.listen, so a call is modelled as *)
(* two steps (up to the await, and from the await on).                     *)
(***************************************************************************)
EXTENDS Integers, Sequences, FiniteSets, TLC

\* ---------------------------------------------------------------- bounds
\* Calls of setupRtspStream that pass the registry lookup (each builds one
\* http server / WebSocket server / client set closure).
MaxInst == 2
\* WebSocket connections that can be open at the same time.
MaxViewer == 2
\* setTimeout handles that can be pending at the same time.
MaxTimer == 2
\* Size of the port range Math.random() draws from (10000 in the code).
MaxPort == 2
\* 'data' events counted per ffmpeg.
MaxFrame == 2
\* Events of the socket of one port probe whose listeners are run.
MaxEvent == 3
\* Notifications the diagnostics route has stored.
MaxNote == 2
\* Cameras createCamera has stored (the ids currentCameraId has given out).
MaxCamera == 3

Inst == 1..MaxInst
Viewers == 1..MaxViewer
Timers == 1..MaxTimer
Ports == 1..MaxPort

\* activeStreams.get(streamId) === undefined
NoInst == 0
\* StreamInfo.lastClientDisconnectTimeout === undefined
NoTimer == 0
\* getPortForStream: streamPorts.get(streamId) || 0
NoPort == 0

\* Exit codes ffmpeg can report to the 'close' handler.
ExitCodes == {0, 1}

\* ------------------------------------------------------------------ URLs
\* The request bodies the model sends: a well-formed RTSP URL with
\* credentials, port and path, a URL that is not RTSP at all, and a body
\* without rtspUrl.
UrlCam == "cam"
UrlBad == "bad"
UrlMissing == "missing"
Urls == {UrlCam, UrlBad, UrlMissing}

UrlText(u) ==
  CASE u = UrlCam -> <<"r","t","s","p",":","/","/","u",":","p","@","h",":","5","/","l">>
    [] u = UrlBad -> <<"h","t","t","p",":","/","/","h">>
    [] OTHER -> << >>

Digits == {"0","1","2","3","4","5","6","7","8","9"}

NoneOf(s, a, b, X) == \A k \in a..b : s[k] \notin X
OnlyOf(s, a, b, X) == \A k \in a..b : s[k] \in X

\* /^rtsp:\/\/(?:[^:]+:[^@]+@)?[^:\/]+(?::\d+)?(?:\/.*)?$/.test(url)
\* c: last index of the credential group (7 when it is absent), h: last
\* index of the host, p: last index of the port group (h when absent).
isValidRtspUrl(s) ==
  LET n == Len(s) IN
  /\ n >= 7
  /\ SubSeq(s, 1, 7) = <<"r","t","s","p",":","/","/">>
  /\ \E c \in 7..n : \E h \in (c+1)..n : \E p \in h..n :
       /\ \/ c = 7
          \/ /\ s[c] = "@"
             /\ \E m \in 9..(c-2) :
                  /\ s[m] = ":"
                  /\ NoneOf(s, 8, m-1, {":"})
                  /\ NoneOf(s, m+1, c-1, {"@"})
       /\ NoneOf(s, c+1, h, {":", "/"})
       /\ \/ p = h
          \/ /\ p >= h + 2
             /\ s[h+1] = ":"
             /\ OnlyOf(s, h+2, p, Digits)
       /\ \/ p = n
          \/ s[p+1] = "/"

\* const { rtspUrl } = req.body; if (!rtspUrl) return res.status(400)
hasRtspUrl(u) == Len(UrlText(u)) > 0

\* Buffer.from(rtspUrl).toString('base64'): an injective encoding of the
\* URL's bytes, kept distinct from the URL itself.
streamId(u) == <<"base64", u>>
StreamIds == {streamId(u) : u \in Urls}

\* ----------------------------------------------------------------- state
VARIABLES
  activeStreams,   \* Map<streamId, StreamInfo>: the closure registered, or NoInst
  streamPorts,     \* Map<streamId, number>: the port stored, or NoPort
  pc,              \* per call of setupRtspStream: "unused", "listen", "done", "rejected"
  rtspUrl,         \* per call: its argument
  port,            \* per call: the port drawn
  server,          \* per call: its http server: "none", "listening", "closed"
  wsServer,        \* per call: its WebSocket.Server: "none", "open", "closed"
  ffmpegProcess,   \* per call: "none", "running", "killed", "closed", "failed"
  clients,         \* per call: the Set<WebSocket> of its closure
  lastClientDisconnectTimeout,  \* per StreamInfo: the handle stored, or NoTimer
  readyState,      \* per WebSocket: "CLOSED", "OPEN", "CLOSING"
  timer,           \* per setTimeout handle: "idle" or "pending"
  timerUrl,        \* per pending handle: the rtspUrl its callback closes over
  wsLegacyClose,   \* the installed ws: TRUE when Server.close() terminates clients (ws < 8)
  armedBy,         \* history, per pending handle: the closure whose last viewer left
                   \* and armed it (the stream the countdown is about)
  quiet,           \* history, per pending handle: no connect and no attach for its
                   \* source has run since it was armed
  reconnected,     \* history, per pending handle: a connect for its source ran while
                   \* it was pending and its stream was the registered one
  diagPc,          \* runNetworkDiagnostics and its route: "idle", "running",
                   \* "returned", "rejected", "responded"
  cameraIp,        \* its argument cameraIp
  rtspPort,        \* its argument rtspPort
  serverIp,        \* its const serverIp = getIpAddress()
  pingResults,     \* pingHost: "pending", "success", "failure"
  portCheck,       \* the promise of isPortOpen: "pending", "true", "false", "rejected"
  resolved,        \* isPortOpen: let resolved
  socket,          \* isPortOpen: its net.Socket: "none", "created", "connecting", "destroyed"
  traceResults,    \* traceroute: "pending", "stdout", "message"
  internetCheck,   \* checkInternetConnectivity: "pending", "true", "false", "stalled"
  diagnostics,     \* the NetworkDiagnostics composed
  suggestions,     \* the list getConnectionSuggestions returned
  url,             \* camera-utils.ts: the argument url of parseRtspUrl and maskRtspUrl
  password,        \* the password the url was written with
  called,          \* which of "parseRtspUrl", "maskRtspUrl" have returned
  parsed,          \* what parseRtspUrl(url) returned
  masked,          \* what maskRtspUrl(url) returned
  produced,        \* per call: the number of 'data' events of its ffmpeg's stdout
  received,        \* per WebSocket: the frames sent to it, by their number
  attachedAt,      \* history, per WebSocket: the number of 'data' events its
                   \* stream's ffmpeg had emitted when the socket was accepted
  events,          \* history, isPortOpen: the events of its socket whose listeners
                   \* have run, in order
  notifications,   \* MemStorage.notifications, by id (currentNotificationId is
                   \* the length plus one)
  cameras,         \* MemStorage.cameras: Map<number, Camera>, a function on the
                   \* ids present
  currentCameraId  \* MemStorage.currentCameraId

relay == <<activeStreams, streamPorts, pc, rtspUrl, port, server, wsServer,
           ffmpegProcess, clients, lastClientDisconnectTimeout, readyState,
           timer, timerUrl, wsLegacyClose>>
history == <<armedBy, quiet, reconnected>>
diag == <<diagPc, cameraIp, rtspPort, serverIp, pingResults, portCheck, resolved, socket,
          traceResults, internetCheck, diagnostics, suggestions>>
codec == <<url, password, called, parsed, masked>>
frames == <<produced, received, attachedAt>>
probe == <<events>>
notes == <<notifications>>
store == <<cameras, currentCameraId>>
vars == <<relay, history, diag, codec, frames, probe, notes, store>>
\* What a step of one component leaves alone.
notRelay == <<diag, codec, frames, probe, notes, store>>
notDiag == <<relay, history, codec, frames, probe, store>>
notCodec == <<relay, history, diag, frames, probe, notes, store>>
notProbe == <<relay, history, codec, frames, notes, store>>
notStore == <<relay, history, diag, codec, frames, probe, notes>>

InitRelay ==
  /\ activeStreams = [s \in StreamIds |-> NoInst]
  /\ streamPorts = [s \in StreamIds |-> NoPort]
  /\ pc = [i \in Inst |-> "unused"]
  /\ rtspUrl = [i \in Inst |-> UrlMissing]
  /\ port = [i \in Inst |-> NoPort]
  /\ server = [i \in Inst |-> "none"]
  /\ wsServer = [i \in Inst |-> "none"]
  /\ ffmpegProcess = [i \in Inst |-> "none"]
  /\ clients = [i \in Inst |-> {}]
  /\ lastClientDisconnectTimeout = [i \in Inst |-> NoTimer]
  /\ readyState = [v \in Viewers |-> "CLOSED"]
  /\ timer = [t \in Timers |-> "idle"]
  /\ timerUrl = [t \in Timers |-> UrlMissing]
  /\ wsLegacyClose \in BOOLEAN
  /\ armedBy = [t \in Timers |-> NoInst]
  /\ quiet = [t \in Timers |-> FALSE]
  /\ reconnected = [t \in Timers |-> FALSE]

\* ---------------------------------------------------- network diagnostics
\* Addresses as the strings the code splits: the camera address of the
\* request body and what getIpAddress() returns ('localhost' when the host
\* has no external IPv4 interface).
IpCamera == <<"1","9","2",".","1","6","8",".","1","8",".","1","0">>
IpSameNet == <<"1","9","2",".","1","6","8",".","1","8",".","5">>
IpOtherNet == <<"1","9","2",".","1","6","8",".","1",".","5","0">>
IpLocalhost == <<"l","o","c","a","l","h","o","s","t">>
IpHostname == <<"c","a","m",".","l","a","n">>
\* cameraIp absent from the request body.
IpMissing == << >>
CameraIps == {IpCamera, IpOtherNet, IpHostname, IpMissing}
ServerIps == {IpSameNet, IpOtherNet, IpLocalhost}

\* rtspPort of the request body (rtspPort || 554): the default and a number
\* socket.connect refuses.
PortDefault == 554
PortTooBig == 70000
RtspPorts == {PortDefault, PortTooBig}
\* net.Socket.connect validates its port and throws ERR_SOCKET_BAD_PORT
\* outside 0..65535.
validPort(p) == p \in 0..65535

NoDiagnostics ==
  [status |-> "none", ipAddress |-> << >>, isConnectedToInternet |-> FALSE,
   isReachable |-> FALSE, isPortOpen |-> FALSE, error |-> "undefined"]

InitDiag ==
  /\ diagPc = "idle"
  /\ cameraIp = << >>
  /\ rtspPort = PortDefault
  /\ serverIp = << >>
  /\ pingResults = "pending"
  /\ portCheck = "pending"
  /\ resolved = FALSE
  /\ socket = "none"
  /\ traceResults = "pending"
  /\ internetCheck = "pending"
  /\ diagnostics = NoDiagnostics
  /\ suggestions = << >>
  /\ events = << >>
  /\ notifications = << >>

\* ------------------------------------------------------ camera-utils.ts
\* undefined, as the value of a capture group that took no part in a match.
undefined == <<"undefined">>

InitCodec ==
  /\ url = << >>
  /\ password = undefined
  /\ called = {}
  /\ parsed = [username |-> undefined, password |-> undefined, ip |-> undefined,
               host |-> undefined, port |-> undefined, path |-> undefined]
  /\ masked = << >>

\* No ffmpeg has written to its stdout.
InitFrames ==
  /\ produced = [i \in Inst |-> 0]
  /\ received = [v \in Viewers |-> << >>]
  /\ attachedAt = [v \in Viewers |-> 0]

\* new MemStorage(), part_010 lines 284-300.
InitStore ==
  /\ cameras = << >>
  /\ currentCameraId = 1

Init == InitRelay /\ InitDiag /\ InitCodec /\ InitFrames /\ InitStore

\* ------------------------------------------------------------- helpers
Min(S) == CHOOSE x \in S : \A y \in S : x <= y

\* The closure a WebSocket was accepted by (clients.add(ws)).
closureOf(v) == CHOOSE i \in Inst : v \in clients[i]

\* A closure nothing can reach any more is garbage: its call has returned,
\* its ffmpeg is gone, its http server no longer listens and it holds no
\* WebSocket, so no event of it is still to come. release(f, i, g, x, y)
\* is f with closure i set to x, or, when g says the step leaves i garbage,
\* to its initial value y, which frees the slot for a later call.
release(f, i, g, x, y) == [f EXCEPT ![i] = IF g THEN y ELSE x]

\* A StreamInfo that is no longer in activeStreams is unreachable, and so is
\* the handle it stores: its field is dropped with it.
dropInfo(j) ==
  [i \in Inst |-> IF i = j THEN NoTimer ELSE lastClientDisconnectTimeout[i]]

\* ----------------------------------------------------- disconnectStream
\* disconnectStream with clearPortForStream moved above its early return.
disconnectStreamClearsPortFirst(u) ==
  LET sid == streamId(u)
      i == activeStreams[sid]
  IN /\ streamPorts' = [streamPorts EXCEPT ![sid] = NoPort]
     /\ IF i = NoInst
        THEN UNCHANGED <<activeStreams, ffmpegProcess, readyState, wsServer,
                         lastClientDisconnectTimeout>>
        ELSE /\ ffmpegProcess' = [ffmpegProcess EXCEPT
                                    ![i] = IF @ = "running" THEN "killed" ELSE @]
             /\ readyState' = [v \in Viewers |->
                                 IF v \in clients[i] /\ readyState[v] = "OPEN"
                                 THEN "CLOSING" ELSE readyState[v]]
             /\ wsServer' = [wsServer EXCEPT ![i] = "closed"]
             /\ activeStreams' = [activeStreams EXCEPT ![sid] = NoInst]
             /\ lastClientDisconnectTimeout' = dropInfo(i)

\* The body of disconnectStream(rtspUrl), lines 150-177; it never touches a
\* timer.
disconnectStream(u) ==
  LET sid == streamId(u)
      i == activeStreams[sid]
  IN IF i = NoInst
     THEN UNCHANGED <<activeStreams, streamPorts, ffmpegProcess, readyState,
                      wsServer, lastClientDisconnectTimeout>>
     ELSE /\ ffmpegProcess' = [ffmpegProcess EXCEPT
                                 ![i] = IF @ = "running" THEN "killed" ELSE @]
          /\ readyState' = [v \in Viewers |->
                              IF v \in clients[i] /\ readyState[v] = "OPEN"
                              THEN "CLOSING" ELSE readyState[v]]
          /\ wsServer' = [wsServer EXCEPT ![i] = "closed"]
          /\ activeStreams' = [activeStreams EXCEPT ![sid] = NoInst]
          /\ streamPorts' = [streamPorts EXCEPT ![sid] = NoPort]
          /\ lastClientDisconnectTimeout' = dropInfo(i)

\* ------------------------------------------------------ setupRtspStream
\* Lines 24-35: the stream is registered; clear its timeout, return the
\* port of the port table.
setupRtspStreamExisting(u) ==
  LET sid == streamId(u)
      i == activeStreams[sid]
      t == lastClientDisconnectTimeout[i]
  IN /\ hasRtspUrl(u)
     /\ i # NoInst
     /\ IF t # NoTimer
        THEN /\ timer' = [timer EXCEPT ![t] = "idle"]
             /\ timerUrl' = [timerUrl EXCEPT ![t] = UrlMissing]
             /\ lastClientDisconnectTimeout' =
                  [lastClientDisconnectTimeout EXCEPT ![i] = NoTimer]
        ELSE UNCHANGED <<timer, timerUrl, lastClientDisconnectTimeout>>
     /\ UNCHANGED <<activeStreams, streamPorts, pc, rtspUrl, port, server,
                    wsServer, ffmpegProcess, clients, readyState, wsLegacyClose>>

\* Lines 37-54: no stream is registered; draw a port, create the servers and
\* suspend on server.listen.
setupRtspStreamBegin(u, p) ==
  /\ hasRtspUrl(u)
  /\ activeStreams[streamId(u)] = NoInst
  /\ \E k \in Inst : pc[k] = "unused"
  /\ LET i == Min({k \in Inst : pc[k] = "unused"})
     IN /\ pc' = [pc EXCEPT ![i] = "listen"]
        /\ rtspUrl' = [rtspUrl EXCEPT ![i] = u]
        /\ port' = [port EXCEPT ![i] = p]
        /\ wsServer' = [wsServer EXCEPT ![i] = "open"]
  /\ UNCHANGED <<activeStreams, streamPorts, server, ffmpegProcess, clients,
                 lastClientDisconnectTimeout, readyState, timer, timerUrl,
                 wsLegacyClose>>

\* What spawn('ffmpeg', ...) can do: start the process; fail with ENOENT,
\* EACCES or EAGAIN, which Node reports on the next tick as an 'error' event
\* of the child, after setupRtspStream has registered the stream and returned
\* its URL; or throw.
SpawnOutcomes == {"ok", "error_event", "throw"}

\* The registration without its setPortForStream(streamId, port).
setupRtspStreamResumeNoPort(i, outcome) ==
  LET sid == streamId(rtspUrl[i])
      old == activeStreams[sid]
  IN /\ pc[i] = "listen"
     /\ \A k \in Inst : server[k] = "listening" => port[k] # port[i]
     /\ server' = [server EXCEPT ![i] = "listening"]
     /\ IF outcome = "throw"
        THEN /\ pc' = [pc EXCEPT ![i] = "rejected"]
             /\ UNCHANGED <<activeStreams, streamPorts, ffmpegProcess,
                            lastClientDisconnectTimeout>>
        ELSE /\ pc' = [pc EXCEPT ![i] = "done"]
             /\ ffmpegProcess' = [ffmpegProcess EXCEPT
                  ![i] = IF outcome = "ok" THEN "running" ELSE "failed"]
             /\ activeStreams' = [activeStreams EXCEPT ![sid] = i]
             /\ streamPorts' = streamPorts
             /\ lastClientDisconnectTimeout' = dropInfo(old)
     /\ UNCHANGED <<rtspUrl, port, wsServer, clients, readyState, timer,
                    timerUrl, wsLegacyClose>>

\* Lines 47-50 and 56-144: the listen callback ran; spawn, register, return.
setupRtspStreamResume(i, outcome) ==
  LET sid == streamId(rtspUrl[i])
      old == activeStreams[sid]
  IN /\ pc[i] = "listen"
     /\ \A k \in Inst : server[k] = "listening" => port[k] # port[i]
     /\ server' = [server EXCEPT ![i] = "listening"]
     /\ IF outcome = "throw"
        THEN /\ pc' = [pc EXCEPT ![i] = "rejected"]
             /\ UNCHANGED <<activeStreams, streamPorts, ffmpegProcess,
                            lastClientDisconnectTimeout>>
        ELSE /\ pc' = [pc EXCEPT ![i] = "done"]
             /\ ffmpegProcess' = [ffmpegProcess EXCEPT
                  ![i] = IF outcome = "ok" THEN "running" ELSE "failed"]
             /\ activeStreams' = [activeStreams EXCEPT ![sid] = i]
             /\ streamPorts' = [streamPorts EXCEPT ![sid] = port[i]]
             /\ lastClientDisconnectTimeout' = dropInfo(old)
     /\ UNCHANGED <<rtspUrl, port, wsServer, clients, readyState, timer,
                    timerUrl, wsLegacyClose>>

\* Lines 51-53: server 'error' (EADDRINUSE: the port is held by another
\* stream's server or by any other program); the await rejects and nothing
\* of the call remains.
setupRtspStreamListenError(i) ==
  /\ pc[i] = "listen"
  /\ pc' = release(pc, i, TRUE, "rejected", "unused")
  /\ rtspUrl' = release(rtspUrl, i, TRUE, rtspUrl[i], UrlMissing)
  /\ port' = release(port, i, TRUE, port[i], NoPort)
  /\ wsServer' = release(wsServer, i, TRUE, wsServer[i], "none")
  /\ UNCHANGED <<activeStreams, streamPorts, server, ffmpegProcess, clients,
                 lastClientDisconnectTimeout, readyState, timer, timerUrl,
                 wsLegacyClose>>

\* ------------------------------------------------------------- handlers
\* The closure is garbage once its ffmpeg has closed and no WebSocket is
\* left in its set.
garbageAfterExit(i) == clients[i] = {}
garbageAfterClose(v) ==
  clients[closureOf(v)] = {v} /\ ffmpegProcess[closureOf(v)] = "closed"

\* The close handler without its activeStreams.delete(streamId).
ffmpegCloseKeepsEntry(i, code) ==
  LET sid == streamId(rtspUrl[i])
      g == garbageAfterExit(i)
  IN /\ ffmpegProcess[i] \in {"running", "killed"}
     /\ code \in ExitCodes
     /\ ffmpegProcess' = release(ffmpegProcess, i, g, "closed", "none")
     /\ wsServer' = release(wsServer, i, g, "closed", "none")
     /\ readyState' = [v \in Viewers |->
          IF wsLegacyClose /\ v \in clients[i] /\ readyState[v] = "OPEN"
          THEN "CLOSING" ELSE readyState[v]]
     /\ server' = release(server, i, g, "closed", "none")
     /\ activeStreams' = activeStreams
     /\ lastClientDisconnectTimeout' = lastClientDisconnectTimeout
     /\ pc' = release(pc, i, g, pc[i], "unused")
     /\ rtspUrl' = release(rtspUrl, i, g, rtspUrl[i], UrlMissing)
     /\ port' = release(port, i, g, port[i], NoPort)
     /\ UNCHANGED <<streamPorts, clients, timer, timerUrl, wsLegacyClose>>

\* ffmpegProcess.on('close'), lines 88-95. wsServer.close() terminates the
\* server's clients only in ws < 8.
ffmpegClose(i, code) ==
  LET sid == streamId(rtspUrl[i])
      g == garbageAfterExit(i)
  IN /\ ffmpegProcess[i] \in {"running", "killed"}
     /\ code \in ExitCodes
     /\ ffmpegProcess' = release(ffmpegProcess, i, g, "closed", "none")
     /\ wsServer' = release(wsServer, i, g, "closed", "none")
     /\ readyState' = [v \in Viewers |->
          IF wsLegacyClose /\ v \in clients[i] /\ readyState[v] = "OPEN"
          THEN "CLOSING" ELSE readyState[v]]
     /\ server' = release(server, i, g, "closed", "none")
     /\ activeStreams' = [activeStreams EXCEPT ![sid] = NoInst]
     /\ lastClientDisconnectTimeout' = dropInfo(activeStreams[sid])
     /\ pc' = release(pc, i, g, pc[i], "unused")
     /\ rtspUrl' = release(rtspUrl, i, g, rtspUrl[i], UrlMissing)
     /\ port' = release(port, i, g, port[i], NoPort)
     /\ UNCHANGED <<streamPorts, clients, timer, timerUrl, wsLegacyClose>>

\* wsServer.on('connection'), lines 98-102. The listener exists once the
\* call has passed line 98: a call that spawn made throw has a listening
\* server whose connections nothing handles.
wsConnection(v, i) ==
  /\ readyState[v] = "CLOSED"
  /\ pc[i] = "done"
  /\ server[i] = "listening"
  /\ wsServer[i] = "open"
  /\ clients' = [clients EXCEPT ![i] = @ \cup {v}]
  /\ readyState' = [readyState EXCEPT ![v] = "OPEN"]
  /\ UNCHANGED <<activeStreams, streamPorts, pc, rtspUrl, port, server,
                 wsServer, ffmpegProcess, lastClientDisconnectTimeout, timer,
                 timerUrl, wsLegacyClose>>

\* The handle setTimeout returns next.
newTimer == Min({k \in Timers : timer[k] = "idle"})

\* if (clients.size === 0) { const stream = activeStreams.get(streamId);
\* if (stream) ... }, evaluated after clients.delete(ws).
arms(v) ==
  /\ clients[closureOf(v)] = {v}
  /\ activeStreams[streamId(rtspUrl[closureOf(v)])] # NoInst

\* ws.on('close'), lines 105-119: the connection ended, by the viewer or
\* after close() / terminate() on the server side.
wsClose(v) ==
  /\ readyState[v] \in {"OPEN", "CLOSING"}
  /\ LET i == closureOf(v)
         j == activeStreams[streamId(rtspUrl[i])]
         g == garbageAfterClose(v)
     IN /\ clients' = [clients EXCEPT ![i] = @ \ {v}]
        /\ readyState' = [readyState EXCEPT ![v] = "CLOSED"]
        /\ IF arms(v)
           THEN /\ \E t \in Timers : timer[t] = "idle"
                /\ timer' = [timer EXCEPT ![newTimer] = "pending"]
                /\ timerUrl' = [timerUrl EXCEPT ![newTimer] = rtspUrl[i]]
                /\ lastClientDisconnectTimeout' =
                     [lastClientDisconnectTimeout EXCEPT ![j] = newTimer]
           ELSE UNCHANGED <<timer, timerUrl, lastClientDisconnectTimeout>>
        /\ pc' = release(pc, i, g, pc[i], "unused")
        /\ rtspUrl' = release(rtspUrl, i, g, rtspUrl[i], UrlMissing)
        /\ port' = release(port, i, g, port[i], NoPort)
        /\ server' = release(server, i, g, server[i], "none")
        /\ wsServer' = release(wsServer, i, g, wsServer[i], "none")
        /\ ffmpegProcess' = release(ffmpegProcess, i, g, ffmpegProcess[i], "none")
  /\ UNCHANGED <<activeStreams, streamPorts, wsLegacyClose>>

\* The setTimeout callback, lines 113-116: disconnectStream(rtspUrl).
idleTimeout(t) ==
  /\ timer[t] = "pending"
  /\ timer' = [timer EXCEPT ![t] = "idle"]
  /\ timerUrl' = [timerUrl EXCEPT ![t] = UrlMissing]
  /\ disconnectStream(timerUrl[t])
  /\ UNCHANGED <<pc, rtspUrl, port, server, clients, wsLegacyClose>>

\* --------------------------------------------------------------- routes
\* POST /api/stream/connect, routes.ts 286-320: a body without rtspUrl gets
\* 400; every other body goes to setupRtspStream (the three actions above).
connect400(u) ==
  /\ ~hasRtspUrl(u)
  /\ UNCHANGED relay

\* POST /api/stream/disconnect, routes.ts 322-347.
disconnectRoute(u) ==
  /\ IF hasRtspUrl(u)
     THEN disconnectStream(u)
     ELSE UNCHANGED <<activeStreams, streamPorts, ffmpegProcess, readyState,
                      wsServer, lastClientDisconnectTimeout>>
  /\ UNCHANGED <<pc, rtspUrl, port, server, clients, timer, timerUrl,
                 wsLegacyClose>>

\* The 'error' event of a ChildProcess has no listener anywhere in the
\* source, so Node raises it as an uncaught exception and the server process
\* ends before any other callback runs: nothing happens after a failed spawn.
alive == \A i \in Inst : ffmpegProcess[i] # "failed"

\* The relay under requests for every URL of Urls; the history is not kept.
Next ==
  \/ alive /\ \E u \in Urls : connect400(u) /\ UNCHANGED history /\ UNCHANGED notRelay
  \/ alive /\ \E u \in Urls : setupRtspStreamExisting(u) /\ UNCHANGED history /\ UNCHANGED notRelay
  \/ alive /\ \E u \in Urls, p \in Ports : setupRtspStreamBegin(u, p) /\ UNCHANGED history /\ UNCHANGED notRelay
  \/ alive /\ \E i \in Inst : setupRtspStreamResume(i, "ok") /\ UNCHANGED history /\ UNCHANGED notRelay
  \/ alive /\ \E i \in Inst, o \in SpawnOutcomes \ {"ok"} :
       setupRtspStreamResume(i, o) /\ UNCHANGED history /\ UNCHANGED notRelay
  \/ alive /\ \E i \in Inst : setupRtspStreamListenError(i) /\ UNCHANGED history /\ UNCHANGED notRelay
  \/ alive /\ \E u \in Urls : disconnectRoute(u) /\ UNCHANGED history /\ UNCHANGED notRelay
  \/ alive /\ \E i \in Inst, code \in ExitCodes : ffmpegClose(i, code) /\ UNCHANGED history /\ UNCHANGED notRelay
  \/ alive /\ \E v \in Viewers, i \in Inst : wsConnection(v, i) /\ UNCHANGED history /\ UNCHANGED notRelay
  \/ alive /\ \E v \in Viewers : wsClose(v) /\ UNCHANGED history /\ UNCHANGED notRelay
  \/ alive /\ \E t \in Timers : idleTimeout(t) /\ UNCHANGED history /\ UNCHANGED notRelay

Spec == Init /\ [][Next]_vars

\* -------------------------------------------------------------- history
\* The relay under requests for one camera, with the history of every
\* pending handle kept.
OneCamera == {UrlCam, UrlMissing}

forSource(t, u) == timer[t] = "pending" /\ timerUrl[t] = u
\* A connect or an attach for source u ends the quiet period of every
\* handle armed for u.
touched(u) == [t \in Timers |-> quiet[t] /\ ~forSource(t, u)]
\* The handles whose history ends in this step: those of a released closure.
forgotten(i, g) == {t \in Timers : g /\ armedBy[t] = i}
forget(h, T, x) == [t \in Timers |-> IF t \in T THEN x ELSE h[t]]

onExisting(u) ==
  LET i == activeStreams[streamId(u)]
      t == lastClientDisconnectTimeout[i]
  IN /\ armedBy' = forget(armedBy, {t} \cap Timers, NoInst)
     /\ quiet' = touched(u)
     /\ reconnected' = [k \in Timers |->
          /\ k # t
          /\ reconnected[k] \/ (forSource(k, u) /\ armedBy[k] = i)]

onBegin(u) ==
  /\ quiet' = touched(u)
  /\ UNCHANGED <<armedBy, reconnected>>

onExit(i) ==
  LET T == forgotten(i, garbageAfterExit(i))
  IN /\ armedBy' = forget(armedBy, T, NoInst)
     /\ quiet' = forget(quiet, T, FALSE)
     /\ reconnected' = forget(reconnected, T, FALSE)

onAttach(i) ==
  /\ quiet' = touched(rtspUrl[i])
  /\ UNCHANGED <<armedBy, reconnected>>

onClose(v) ==
  LET i == closureOf(v)
      T == forgotten(i, garbageAfterClose(v))
  IN /\ armedBy' = IF arms(v) THEN [forget(armedBy, T, NoInst) EXCEPT ![newTimer] = i]
                   ELSE forget(armedBy, T, NoInst)
     /\ quiet' = IF arms(v) THEN [forget(quiet, T, FALSE) EXCEPT ![newTimer] = TRUE]
                 ELSE forget(quiet, T, FALSE)
     /\ reconnected' = forget(reconnected, T, FALSE)

onTimeout(t) ==
  /\ armedBy' = [armedBy EXCEPT ![t] = NoInst]
  /\ quiet' = [quiet EXCEPT ![t] = FALSE]
  /\ reconnected' = [reconnected EXCEPT ![t] = FALSE]

NextHistory ==
  \/ alive /\ \E u \in OneCamera : connect400(u) /\ UNCHANGED history /\ UNCHANGED notRelay
  \/ alive /\ \E u \in OneCamera : setupRtspStreamExisting(u) /\ onExisting(u) /\ UNCHANGED notRelay
  \/ alive /\ \E u \in OneCamera, p \in Ports : setupRtspStreamBegin(u, p) /\ onBegin(u) /\ UNCHANGED notRelay
  \/ alive /\ \E i \in Inst : setupRtspStreamResume(i, "ok") /\ UNCHANGED history /\ UNCHANGED notRelay
  \/ alive /\ \E i \in Inst, o \in SpawnOutcomes \ {"ok"} :
       setupRtspStreamResume(i, o) /\ UNCHANGED history /\ UNCHANGED notRelay
  \/ alive /\ \E i \in Inst : setupRtspStreamListenError(i) /\ UNCHANGED history /\ UNCHANGED notRelay
  \/ alive /\ \E u \in OneCamera : disconnectRoute(u) /\ UNCHANGED history /\ UNCHANGED notRelay
  \/ alive /\ \E i \in Inst, code \in ExitCodes : ffmpegClose(i, code) /\ onExit(i) /\ UNCHANGED notRelay
  \/ alive /\ \E v \in Viewers, i \in Inst : wsConnection(v, i) /\ onAttach(i) /\ UNCHANGED notRelay
  \/ alive /\ \E v \in Viewers : wsClose(v) /\ onClose(v) /\ UNCHANGED notRelay
  \/ alive /\ \E t \in Timers : idleTimeout(t) /\ onTimeout(t) /\ UNCHANGED notRelay

SpecHistory == Init /\ [][NextHistory]_vars

\* What Node and the operating system guarantee to happen: a timeout that
\* is pending fires, a process sent SIGKILL exits, and a socket close() was
\* called on closes. Requests, viewers arriving or leaving by themselves and
\* ffmpeg exiting by itself are not promised.
Fairness ==
  /\ \A t \in Timers :
       WF_vars(alive /\ idleTimeout(t) /\ onTimeout(t) /\ UNCHANGED notRelay)
  /\ \A i \in Inst :
       WF_vars(/\ alive /\ ffmpegProcess[i] = "killed"
               /\ \E code \in ExitCodes : ffmpegClose(i, code)
               /\ onExit(i) /\ UNCHANGED notRelay)
  /\ \A v \in Viewers :
       WF_vars(/\ alive /\ readyState[v] = "CLOSING"
               /\ wsClose(v) /\ onClose(v) /\ UNCHANGED notRelay)

SpecLive == Init /\ [][NextHistory]_vars /\ Fairness

TypeOK ==
  /\ \A s \in StreamIds : activeStreams[s] \in Inst \cup {NoInst}
  /\ \A v \in Viewers :
       (readyState[v] = "CLOSED") <=> (\A i \in Inst : v \notin clients[i])
  /\ \A v \in Viewers : Cardinality({i \in Inst : v \in clients[i]}) <= 1
  /\ \A s \in StreamIds : activeStreams[s] # NoInst =>
       /\ ffmpegProcess[activeStreams[s]] \in {"running", "failed"}
       /\ streamPorts[s] = port[activeStreams[s]]
       /\ streamId(rtspUrl[activeStreams[s]]) = s

\* ------------------------------------------------------------ broadcast
\* The data handler sending to the open sockets of every stream instead of
\* those of its own closure's set.
stdoutDataToEverySocket(i) ==
  /\ ffmpegProcess[i] \in {"running", "killed"}
  /\ produced[i] < MaxFrame
  /\ produced' = [produced EXCEPT ![i] = @ + 1]
  /\ received' = [v \in Viewers |->
       IF readyState[v] = "OPEN"
       THEN Append(received[v], produced[i] + 1) ELSE received[v]]
  /\ UNCHANGED <<relay, attachedAt>>

\* ffmpegProcess.stdout.on('data'), lines 123-130: send the chunk to every
\* client of the closure whose readyState is OPEN. The pipe of a killed
\* ffmpeg can still deliver what it holds until 'close'.
stdoutData(i) ==
  /\ ffmpegProcess[i] \in {"running", "killed"}
  /\ produced[i] < MaxFrame
  /\ produced' = [produced EXCEPT ![i] = @ + 1]
  /\ received' = [v \in Viewers |->
       IF v \in clients[i] /\ readyState[v] = "OPEN"
       THEN Append(received[v], produced[i] + 1) ELSE received[v]]
  /\ UNCHANGED <<relay, attachedAt>>

\* A call that starts counts the 'data' events of its own ffmpeg; a socket
\* that is accepted has been sent nothing.
framesOnBegin ==
  /\ produced' = [produced EXCEPT ![Min({k \in Inst : pc[k] = "unused"})] = 0]
  /\ UNCHANGED <<received, attachedAt>>
framesOnAttach(v, i) ==
  /\ received' = [received EXCEPT ![v] = << >>]
  /\ attachedAt' = [attachedAt EXCEPT ![v] = produced[i]]
  /\ UNCHANGED produced
\* A socket that has closed is gone, and what it was sent with it.
framesOnClose(v) ==
  /\ received' = [received EXCEPT ![v] = << >>]
  /\ attachedAt' = [attachedAt EXCEPT ![v] = 0]
  /\ UNCHANGED produced

\* The relay under requests for one camera, with the frames sent.
NextBroadcast ==
  \/ alive /\ \E u \in OneCamera : connect400(u) /\ UNCHANGED <<history, diag, codec, frames, probe, notes, store>>
  \/ alive /\ \E u \in OneCamera : setupRtspStreamExisting(u) /\ UNCHANGED <<history, diag, codec, frames, probe, notes, store>>
  \/ alive /\ \E u \in OneCamera, p \in Ports :
       setupRtspStreamBegin(u, p) /\ framesOnBegin /\ UNCHANGED <<history, diag, codec, probe, notes, store>>
  \/ alive /\ \E i \in Inst : setupRtspStreamResume(i, "ok") /\ UNCHANGED <<history, diag, codec, frames, probe, notes, store>>
  \/ alive /\ \E i \in Inst, o \in SpawnOutcomes \ {"ok"} :
       setupRtspStreamResume(i, o) /\ UNCHANGED <<history, diag, codec, frames, probe, notes, store>>
  \/ alive /\ \E i \in Inst : setupRtspStreamListenError(i) /\ UNCHANGED <<history, diag, codec, frames, probe, notes, store>>
  \/ alive /\ \E u \in OneCamera : disconnectRoute(u) /\ UNCHANGED <<history, diag, codec, frames, probe, notes, store>>
  \/ alive /\ \E i \in Inst, code \in ExitCodes :
       ffmpegClose(i, code) /\ UNCHANGED <<history, diag, codec, frames, probe, notes, store>>
  \/ alive /\ \E v \in Viewers, i \in Inst :
       wsConnection(v, i) /\ framesOnAttach(v, i) /\ UNCHANGED <<history, diag, codec, probe, notes, store>>
  \/ alive /\ \E v \in Viewers : wsClose(v) /\ framesOnClose(v) /\ UNCHANGED <<history, diag, codec, probe, notes, store>>
  \/ alive /\ \E t \in Timers : idleTimeout(t) /\ UNCHANGED <<history, diag, codec, frames, probe, notes, store>>
  \/ alive /\ \E i \in Inst : stdoutData(i) /\ UNCHANGED <<history, diag, codec, probe, notes, store>>

SpecBroadcast == Init /\ [][NextBroadcast]_vars

\* ------------------------------------------- network-diagnostics.ts
\* String.prototype.split on a one-character separator.
RECURSIVE split(_, _)
split(s, sep) ==
  IF \E k \in 1..Len(s) : s[k] = sep
  THEN LET k == Min({j \in 1..Len(s) : s[j] = sep})
       IN <<SubSeq(s, 1, k - 1)>> \o split(SubSeq(s, k + 1, Len(s)), sep)
  ELSE <<s>>

\* getNetworkFromIp, lines 137-141.
getNetworkFromIp(ip) ==
  LET parts == split(ip, ".")
  IN IF Len(parts) # 4 THEN << >>
     ELSE parts[1] \o <<".">> \o parts[2] \o <<".">> \o parts[3]

\* areOnSameNetwork, lines 146-148.
areOnSameNetwork(ip1, ip2) == getNetworkFromIp(ip1) = getNetworkFromIp(ip2)

\* The five messages of getConnectionSuggestions, by their first words.
MsgDifferentNetworks == "Your camera and server are on different networks."
MsgNoInternet == "Your server does not have internet connectivity."
MsgCannotReach == "Cannot reach your camera."
MsgPortClosed == "Your camera is reachable but the RTSP port (554) is closed."
MsgFallback == "All basic checks passed but connection still fails."

\* getConnectionSuggestions with the status test of its fallback left out.
getConnectionSuggestionsNoStatus(d, ip) ==
  LET s1 == IF ~areOnSameNetwork(d.ipAddress, ip)
            THEN <<MsgDifferentNetworks>> ELSE << >>
      s2 == IF ~d.isConnectedToInternet THEN Append(s1, MsgNoInternet) ELSE s1
      s3 == IF ~d.isReachable THEN Append(s2, MsgCannotReach) ELSE s2
      s4 == IF d.isReachable /\ ~d.isPortOpen THEN Append(s3, MsgPortClosed) ELSE s3
  IN IF Len(s4) = 0 THEN Append(s4, MsgFallback) ELSE s4

\* getConnectionSuggestions with the reachability test of lines 172-176 left
\* out.
getConnectionSuggestionsNoReach(d, ip) ==
  LET s1 == IF ~areOnSameNetwork(d.ipAddress, ip)
            THEN <<MsgDifferentNetworks>> ELSE << >>
      s2 == IF ~d.isConnectedToInternet THEN Append(s1, MsgNoInternet) ELSE s1
      s4 == IF d.isReachable /\ ~d.isPortOpen THEN Append(s2, MsgPortClosed) ELSE s2
  IN IF Len(s4) = 0 /\ d.status # "success" THEN Append(s4, MsgFallback) ELSE s4

\* getConnectionSuggestions, lines 153-193: five tests in sequence, each
\* pushing onto the list built so far.
getConnectionSuggestions(d, ip) ==
  LET s1 == IF ~areOnSameNetwork(d.ipAddress, ip)
            THEN <<MsgDifferentNetworks>> ELSE << >>
      s2 == IF ~d.isConnectedToInternet THEN Append(s1, MsgNoInternet) ELSE s1
      s3 == IF ~d.isReachable THEN Append(s2, MsgCannotReach) ELSE s2
      s4 == IF d.isReachable /\ ~d.isPortOpen THEN Append(s3, MsgPortClosed) ELSE s3
  IN IF Len(s4) = 0 /\ d.status # "success" THEN Append(s4, MsgFallback) ELSE s4

\* MemStorage.createNotification, part_010 lines 584-595, for the fields the
\* diagnostics route sets.
createNotification(n) == notifications' = Append(notifications, n)

\* POST /api/network/diagnostics without cameraIp, routes.ts 611-615.
diagnostics400(ip) ==
  /\ ip = IpMissing
  /\ UNCHANGED notRelay

\* routes.ts 618 and runNetworkDiagnostics lines 106-116: the four probes
\* start. The executor of isPortOpen (lines 43-75) runs at once; when
\* socket.connect(port, host) throws, the promise of the probe is rejected
\* and the socket stays as created.
runNetworkDiagnosticsStart(ip, p, sip) ==
  /\ diagPc \in {"idle", "responded", "rejected"}
  /\ ip # IpMissing
  /\ Len(notifications) < MaxNote
  /\ diagPc' = "running"
  /\ cameraIp' = ip
  /\ rtspPort' = p
  /\ serverIp' = sip
  /\ pingResults' = "pending"
  /\ traceResults' = "pending"
  /\ internetCheck' = "pending"
  /\ resolved' = FALSE
  /\ socket' = IF validPort(p) THEN "connecting" ELSE "created"
  /\ portCheck' = IF validPort(p) THEN "pending" ELSE "rejected"
  /\ UNCHANGED <<diagnostics, suggestions>>

\* pingHost, lines 26-37: ping exits 0, or execAsync rejects and is caught.
pingHost(ok) ==
  /\ diagPc = "running" /\ pingResults = "pending"
  /\ pingResults' = IF ok THEN "success" ELSE "failure"
  /\ UNCHANGED <<diagPc, cameraIp, rtspPort, serverIp, portCheck, resolved,
                 socket, traceResults, internetCheck, diagnostics, suggestions>>

\* The listener of 'connect' without its socket.destroy().
socketOnConnectNoDestroy ==
  /\ resolved' = TRUE
  /\ socket' = socket
  /\ portCheck' = IF portCheck = "pending" THEN "true" ELSE portCheck
  /\ UNCHANGED <<diagPc, cameraIp, rtspPort, serverIp, pingResults,
                 traceResults, internetCheck, diagnostics, suggestions>>

\* isPortOpen, the listener of 'connect', lines 51-55. resolve() of a promise
\* that is settled does nothing.
socketOnConnect ==
  /\ resolved' = TRUE
  /\ socket' = "destroyed"
  /\ portCheck' = IF portCheck = "pending" THEN "true" ELSE portCheck
  /\ UNCHANGED <<diagPc, cameraIp, rtspPort, serverIp, pingResults,
                 traceResults, internetCheck, diagnostics, suggestions>>

\* isPortOpen, the listener of 'error', lines 58-63; a socket that emits
\* 'error' has been destroyed by net.
socketOnError ==
  /\ socket' = "destroyed"
  /\ resolved' = TRUE
  /\ portCheck' = IF ~resolved /\ portCheck = "pending" THEN "false" ELSE portCheck
  /\ UNCHANGED <<diagPc, cameraIp, rtspPort, serverIp, pingResults,
                 traceResults, internetCheck, diagnostics, suggestions>>

\* The listener of 'timeout' without its resolve(false).
socketOnTimeoutNoResolve ==
  /\ IF ~resolved
     THEN /\ resolved' = TRUE
          /\ socket' = "destroyed"
          /\ portCheck' = portCheck
     ELSE UNCHANGED <<resolved, socket, portCheck>>
  /\ UNCHANGED <<diagPc, cameraIp, rtspPort, serverIp, pingResults,
                 traceResults, internetCheck, diagnostics, suggestions>>

\* isPortOpen, the listener of 'timeout', lines 65-71.
socketOnTimeout ==
  /\ IF ~resolved
     THEN /\ resolved' = TRUE
          /\ socket' = "destroyed"
          /\ portCheck' = IF portCheck = "pending" THEN "false" ELSE portCheck
     ELSE UNCHANGED <<resolved, socket, portCheck>>
  /\ UNCHANGED <<diagPc, cameraIp, rtspPort, serverIp, pingResults,
                 traceResults, internetCheck, diagnostics, suggestions>>

\* The events net emits on the socket of the probe: 'connect', 'error' or
\* 'timeout' while it is connecting, and none once it is destroyed.
socketConnect == diagPc = "running" /\ socket = "connecting" /\ socketOnConnect
socketError == diagPc = "running" /\ socket = "connecting" /\ socketOnError
socketTimeout == diagPc = "running" /\ socket = "connecting" /\ socketOnTimeout

\* traceroute, lines 81-89: stdout, or the message of the error caught.
traceroute(ok) ==
  /\ diagPc = "running" /\ traceResults = "pending"
  /\ traceResults' = IF ok THEN "stdout" ELSE "message"
  /\ UNCHANGED <<diagPc, cameraIp, rtspPort, serverIp, pingResults, portCheck,
                 resolved, socket, internetCheck, diagnostics, suggestions>>

\* checkInternetConnectivity, lines 94-101: curl exits with output (true),
\* exits with none or fails (false).
checkInternetConnectivity(ok) ==
  /\ diagPc = "running" /\ internetCheck = "pending"
  /\ internetCheck' = IF ok THEN "true" ELSE "false"
  /\ UNCHANGED <<diagPc, cameraIp, rtspPort, serverIp, pingResults, portCheck,
                 resolved, socket, traceResults, diagnostics, suggestions>>

\* checkInternetConnectivity, line 96: curl runs with --connect-timeout 5
\* and no --max-time, and execAsync with no timeout: once connected, a
\* transfer on which no byte arrives any more never ends.
checkInternetConnectivityStall ==
  /\ diagPc = "running" /\ internetCheck = "pending"
  /\ internetCheck' = "stalled"
  /\ UNCHANGED <<diagPc, cameraIp, rtspPort, serverIp, pingResults, portCheck,
                 resolved, socket, traceResults, diagnostics, suggestions>>

\* Promise.all of lines 110-115 rejects as soon as one promise is rejected:
\* runNetworkDiagnostics throws; the route stores its error notification and
\* answers 500 (routes.ts 638-652).
runNetworkDiagnosticsReject ==
  /\ diagPc = "running" /\ portCheck = "rejected"
  /\ diagPc' = "rejected"
  /\ createNotification([title |-> "Network Diagnostics Failed", type |-> "alert"])
  /\ UNCHANGED <<cameraIp, rtspPort, serverIp, pingResults, portCheck, resolved,
                 socket, traceResults, internetCheck, diagnostics, suggestions>>

\* The status expression with the port probe left out of its second test.
statusOfPingOnly(ping, open) ==
  IF ping /\ open THEN "success" ELSE IF ping THEN "partial" ELSE "failure"

\* The status expression of line 118.
statusOf(ping, open) ==
  IF ping /\ open THEN "success" ELSE IF ping \/ open THEN "partial" ELSE "failure"

\* Lines 110-131: all four promises are fulfilled; compose the result.
runNetworkDiagnosticsJoin ==
  LET ping == pingResults = "success"
      open == portCheck = "true"
  IN /\ diagPc = "running"
     /\ pingResults # "pending"
     /\ portCheck \in {"true", "false"}
     /\ traceResults # "pending"
     /\ internetCheck \in {"true", "false"}
     /\ diagnostics' =
          [status |-> statusOf(ping, open),
           ipAddress |-> serverIp,
           isConnectedToInternet |-> internetCheck = "true",
           isReachable |-> ping,
           isPortOpen |-> open,
           error |-> IF ~ping THEN "Camera IP is not reachable"
                     ELSE IF ~open THEN "RTSP port is closed or blocked"
                     ELSE "undefined"]
     /\ diagPc' = "returned"
     /\ UNCHANGED <<cameraIp, rtspPort, serverIp, pingResults, portCheck,
                    resolved, socket, traceResults, internetCheck, suggestions>>

\* routes.ts 624-631: the type of the notification, from the status.
notificationType(status) ==
  IF status = "success" THEN "info"
  ELSE IF status = "partial" THEN "warning" ELSE "alert"

\* routes.ts 621-635: the suggestions for the result, the notification, then
\* the response.
diagnosticsRespond ==
  /\ diagPc = "returned"
  /\ suggestions' = getConnectionSuggestions(diagnostics, cameraIp)
  /\ createNotification([title |-> "Network Diagnostics Completed",
                         type |-> notificationType(diagnostics.status)])
  /\ diagPc' = "responded"
  /\ UNCHANGED <<cameraIp, rtspPort, serverIp, pingResults, portCheck, resolved,
                 socket, traceResults, internetCheck, diagnostics>>

\* One diagnostics request at a time; the relay is idle.
NextDiag ==
  \/ \E ip \in CameraIps : diagnostics400(ip) /\ UNCHANGED <<notes, notDiag>>
  \/ \E ip \in CameraIps, p \in RtspPorts, sip \in ServerIps :
       runNetworkDiagnosticsStart(ip, p, sip) /\ UNCHANGED <<notes, notDiag>>
  \/ \E ok \in BOOLEAN : pingHost(ok) /\ UNCHANGED <<notes, notDiag>>
  \/ socketConnect /\ UNCHANGED <<notes, notDiag>>
  \/ socketError /\ UNCHANGED <<notes, notDiag>>
  \/ socketTimeout /\ UNCHANGED <<notes, notDiag>>
  \/ \E ok \in BOOLEAN : traceroute(ok) /\ UNCHANGED <<notes, notDiag>>
  \/ \E ok \in BOOLEAN : checkInternetConnectivity(ok) /\ UNCHANGED <<notes, notDiag>>
  \/ checkInternetConnectivityStall /\ UNCHANGED <<notes, notDiag>>
  \/ runNetworkDiagnosticsReject /\ UNCHANGED notDiag
  \/ runNetworkDiagnosticsJoin /\ UNCHANGED <<notes, notDiag>>
  \/ diagnosticsRespond /\ UNCHANGED notDiag

SpecDiag == Init /\ [][NextDiag]_vars

\* ------------------------------------------- diagnostics beside the relay
\* The end of the route with a disconnectStream of the camera's stream added
\* for a result that is not a success.
diagnosticsRouteEndDisconnects ==
  \/ /\ runNetworkDiagnosticsReject
     /\ UNCHANGED relay
  \/ /\ diagnosticsRespond
     /\ IF diagnostics.status = "success"
        THEN UNCHANGED relay
        ELSE /\ disconnectStream(UrlCam)
             /\ UNCHANGED <<pc, rtspUrl, port, server, clients, timer, timerUrl,
                            wsLegacyClose>>

\* The two ends of POST /api/network/diagnostics, routes.ts 621-652: the
\* response after the notification, or the catch block with its own. Neither
\* calls into rtsp-stream.ts.
diagnosticsRouteEnd ==
  /\ runNetworkDiagnosticsReject \/ diagnosticsRespond
  /\ UNCHANGED relay

\* Diagnostics requests for one camera while the relay serves that camera:
\* connects, viewers attaching and leaving (which arms the countdown). Ping
\* and the port probe end either way; traceroute and curl, which the status
\* does not read, succeed.
NextDiagRelay ==
  \/ alive /\ \E p \in Ports : setupRtspStreamBegin(UrlCam, p) /\ UNCHANGED history /\ UNCHANGED notRelay
  \/ alive /\ \E i \in Inst : setupRtspStreamResume(i, "ok") /\ UNCHANGED history /\ UNCHANGED notRelay
  \/ alive /\ \E v \in Viewers, i \in Inst : wsConnection(v, i) /\ UNCHANGED history /\ UNCHANGED notRelay
  \/ alive /\ \E v \in Viewers : wsClose(v) /\ UNCHANGED history /\ UNCHANGED notRelay
  \/ \E p \in RtspPorts :
       runNetworkDiagnosticsStart(IpCamera, p, IpSameNet) /\ UNCHANGED <<notes, notDiag>>
  \/ \E ok \in BOOLEAN : pingHost(ok) /\ UNCHANGED <<notes, notDiag>>
  \/ socketConnect /\ UNCHANGED <<notes, notDiag>>
  \/ socketError /\ UNCHANGED <<notes, notDiag>>
  \/ socketTimeout /\ UNCHANGED <<notes, notDiag>>
  \/ traceroute(TRUE) /\ UNCHANGED <<notes, notDiag>>
  \/ checkInternetConnectivity(TRUE) /\ UNCHANGED <<notes, notDiag>>
  \/ runNetworkDiagnosticsJoin /\ UNCHANGED <<notes, notDiag>>
  \/ diagnosticsRouteEnd /\ UNCHANGED <<history, codec, frames, probe, store>>

SpecDiagRelay == Init /\ [][NextDiagRelay]_vars

\* ------------------------------------------------------------ isPortOpen
\* The three events isPortOpen listens to.
SocketEvents == {"connect", "error", "timeout"}

socketOn(e) ==
  CASE e = "connect" -> socketOnConnect
    [] e = "error" -> socketOnError
    [] e = "timeout" -> socketOnTimeout

\* The listener of event e runs, whatever ran before it: on the connecting
\* socket, or on the socket a listener has already destroyed.
socketEmit(e) ==
  /\ diagPc = "running"
  /\ socket \in {"connecting", "destroyed"}
  /\ Len(events) < MaxEvent
  /\ socketOn(e)
  /\ events' = Append(events, e)

\* One port probe with its three listeners run in every order, also the
\* orders net never produces.
NextProbe ==
  \/ \E ip \in CameraIps, p \in RtspPorts, sip \in ServerIps :
       runNetworkDiagnosticsStart(ip, p, sip) /\ events' = << >> /\ UNCHANGED notProbe
  \/ socketEmit("connect") /\ UNCHANGED notProbe
  \/ socketEmit("error") /\ UNCHANGED notProbe
  \/ socketEmit("timeout") /\ UNCHANGED notProbe

SpecProbe == Init /\ [][NextProbe]_vars

\* getConnectionSuggestions as a function of any result and address: every
\* NetworkDiagnostics value over the addresses above, given to the route's
\* call of line 621.
AnyDiagnostics ==
  [status : {"success", "partial", "failure"},
   ipAddress : ServerIps,
   isConnectedToInternet : BOOLEAN,
   isReachable : BOOLEAN,
   isPortOpen : BOOLEAN,
   error : {"undefined"}]

InitSuggest ==
  /\ InitRelay
  /\ InitCodec
  /\ InitFrames
  /\ InitStore
  /\ diagPc = "returned"
  /\ cameraIp \in CameraIps \ {IpMissing}
  /\ diagnostics \in AnyDiagnostics
  /\ serverIp = diagnostics.ipAddress
  /\ rtspPort = PortDefault
  /\ pingResults = "pending"
  /\ portCheck = "pending"
  /\ resolved = FALSE
  /\ socket = "none"
  /\ traceResults = "pending"
  /\ internetCheck = "pending"
  /\ suggestions = << >>
  /\ events = << >>
  /\ notifications = << >>

NextSuggest == diagnosticsRespond /\ UNCHANGED notDiag

SpecSuggest == InitSuggest /\ [][NextSuggest]_vars

\* --------------------------------------------- parseRtspUrl, maskRtspUrl
\* \w of a JavaScript regular expression.
Letters == {"a","b","c","d","e","f","g","h","i","j","k","l","m","n","o","p",
            "q","r","s","t","u","v","w","x","y","z"}
WordChars == Letters \cup Digits \cup {"_"}

\* The least index from a on whose character is in X, or Len(s) + 1.
firstIn(s, a, X) ==
  IF \E k \in a..Len(s) : s[k] \in X
  THEN Min({k \in a..Len(s) : s[k] \in X})
  ELSE Len(s) + 1
\* The least index from a on whose character is not in X, or Len(s) + 1.
firstNotIn(s, a, X) ==
  IF \E k \in a..Len(s) : s[k] \notin X
  THEN Min({k \in a..Len(s) : s[k] \notin X})
  ELSE Len(s) + 1

RtspScheme == <<"r","t","s","p",":","/","/">>

\* One attempt of the regular expression of parseRtspUrl (line 18) at index
\* a: rtsp:\/\/(?:([^:]+):([^@]+)@)?([^:\/]+)(?::(\d+))?(?:\/(.*))?
\* Each group is greedy; the credentials group is given up when no host
\* character follows its '@'.
matchRtspAt(s, a) ==
  LET n == Len(s)
      b == a + 7
      c == firstIn(s, b, {":"})
      e == firstIn(s, c + 1, {"@"})
      hostAt(k) == k <= n /\ s[k] \notin {":", "/"}
      cred == c > b /\ c <= n /\ e > c + 1 /\ e <= n /\ hostAt(e + 1)
      h == IF cred THEN e + 1 ELSE b
      hEnd == firstIn(s, h, {":", "/"}) - 1
      dEnd == firstNotIn(s, hEnd + 2, Digits) - 1
      hasPort == hEnd + 1 <= n /\ s[hEnd + 1] = ":" /\ dEnd >= hEnd + 2
      pEnd == IF hasPort THEN dEnd ELSE hEnd
      hasPath == pEnd + 1 <= n /\ s[pEnd + 1] = "/"
  IN [ok |-> a + 6 <= n /\ SubSeq(s, a, a + 6) = RtspScheme /\ hostAt(h),
      m1 |-> IF cred THEN SubSeq(s, b, c - 1) ELSE undefined,
      m2 |-> IF cred THEN SubSeq(s, c + 1, e - 1) ELSE undefined,
      m3 |-> SubSeq(s, h, hEnd),
      m4 |-> IF hasPort THEN SubSeq(s, hEnd + 2, dEnd) ELSE undefined,
      m5 |-> IF hasPath THEN SubSeq(s, pEnd + 2, n) ELSE undefined]

\* parseRtspUrl, lines 8-35: the leftmost match, or {} when there is none.
parseRtspUrl(s) ==
  LET starts == {a \in 1..Len(s) : matchRtspAt(s, a).ok}
      m == matchRtspAt(s, Min(starts))
  IN IF starts = {}
     THEN [username |-> undefined, password |-> undefined, ip |-> undefined,
           host |-> undefined, port |-> undefined, path |-> undefined]
     ELSE [username |-> m.m1, password |-> m.m2, ip |-> m.m3, host |-> m.m3,
           port |-> IF m.m4 = undefined THEN <<"5","5","4">> ELSE m.m4,
           path |-> m.m5]

\* One attempt of the regular expression of maskRtspUrl (line 39) at index
\* a: (\w+):([^@]+)@ ; c is the ':' after the word, e the '@'.
maskColon(s, a) == firstNotIn(s, a, WordChars)
maskAt(s, a) == firstIn(s, maskColon(s, a) + 1, {"@"})
maskMatches(s, a) ==
  /\ maskColon(s, a) > a
  /\ maskColon(s, a) <= Len(s)
  /\ s[maskColon(s, a)] = ":"
  /\ maskAt(s, a) > maskColon(s, a) + 1
  /\ maskAt(s, a) <= Len(s)

\* maskRtspUrl, lines 37-40: replace the leftmost match by "$1:******@".
maskRtspUrl(s) ==
  LET starts == {a \in 1..Len(s) : maskMatches(s, a)}
      a == Min(starts)
  IN IF starts = {} THEN s
     ELSE SubSeq(s, 1, maskColon(s, a) - 1)
            \o <<":", "*", "*", "*", "*", "*", "*", "@">>
            \o SubSeq(s, maskAt(s, a) + 1, Len(s))

\* The URLs given to the two functions, written from their parts:
\* rtsp://[user:password@]host[:port][/path].
CodecUsers == {<<"u","s","e","r">>, <<"a","d","m","i","n">>}
CodecPasswords == {<<"p","a","s","s">>, <<"p","a","@","s","s">>, <<"5","5","4">>, <<"l","i","v","e">>}
CodecHosts == {<<"1","9","2",".","1","6","8",".","1",".","5","0">>, <<"c","a","m">>}
CodecPorts == {undefined, <<"5","5","4">>}
CodecPaths == {undefined, <<"l","i","v","e","/","c","h","0","0","_","0">>}

writeUrl(user, pw, host, po, pa) ==
  RtspScheme
    \o (IF pw = undefined THEN << >> ELSE user \o <<":">> \o pw \o <<"@">>)
    \o host
    \o (IF po = undefined THEN << >> ELSE <<":">> \o po)
    \o (IF pa = undefined THEN << >> ELSE <<"/">> \o pa)

InitUrls ==
  /\ InitRelay
  /\ InitDiag
  /\ InitFrames
  /\ InitStore
  /\ called = {}
  /\ parsed = [username |-> undefined, password |-> undefined, ip |-> undefined,
               host |-> undefined, port |-> undefined, path |-> undefined]
  /\ masked = << >>
  /\ password \in CodecPasswords \cup {undefined}
  /\ \E user \in CodecUsers, host \in CodecHosts, po \in CodecPorts,
        pa \in CodecPaths :
       url = writeUrl(user, password, host, po, pa)

callParseRtspUrl ==
  /\ "parseRtspUrl" \notin called
  /\ parsed' = parseRtspUrl(url)
  /\ called' = called \cup {"parseRtspUrl"}
  /\ UNCHANGED <<url, password, masked>>

callMaskRtspUrl ==
  /\ "maskRtspUrl" \notin called
  /\ masked' = maskRtspUrl(url)
  /\ called' = called \cup {"maskRtspUrl"}
  /\ UNCHANGED <<url, password, parsed>>

NextCodec ==
  \/ callParseRtspUrl /\ UNCHANGED notCodec
  \/ callMaskRtspUrl /\ UNCHANGED notCodec

SpecCodec == InitUrls /\ [][NextCodec]_vars

\* ------------------------------------------------- MemStorage: cameras
\* isDefault of a stored camera: true, false, or neither (undefined, null).
Flags == {"true", "false", "unset"}
\* isDefault of an update: one of these, or no such key in the body.
NoKey == "absent"

\* The loops of lines 354-360 and 374-380: every camera but `keep` whose
\* isDefault is set loses it.
removeDefault(cs, keep) ==
  [k \in DOMAIN cs |->
     IF k # keep /\ cs[k].isDefault = "true"
     THEN [cs[k] EXCEPT !.isDefault = "false"] ELSE cs[k]]

\* MemStorage.createCamera, lines 334-365; no camera has the new id.
createCamera(d) ==
  /\ currentCameraId <= MaxCamera
  /\ LET id == currentCameraId
         camera == [isDefault |-> d, nightMode |-> FALSE]
         others == IF d = "true" THEN removeDefault(cameras, id) ELSE cameras
     IN cameras' = [k \in DOMAIN cameras \cup {id} |->
                      IF k = id THEN camera ELSE others[k]]
  /\ currentCameraId' = currentCameraId + 1

\* updateCamera without its loop over the other cameras.
updateCameraKeepsOthers(id, d) ==
  /\ IF id \notin DOMAIN cameras
     THEN UNCHANGED cameras
     ELSE cameras' = [cameras EXCEPT
            ![id] = IF d = NoKey THEN @ ELSE [@ EXCEPT !.isDefault = d]]
  /\ UNCHANGED currentCameraId

\* MemStorage.updateCamera, lines 367-385.
updateCamera(id, d) ==
  /\ IF id \notin DOMAIN cameras
     THEN UNCHANGED cameras
     ELSE LET others == IF d = "true" THEN removeDefault(cameras, id) ELSE cameras
          IN cameras' = [others EXCEPT
               ![id] = IF d = NoKey THEN @ ELSE [@ EXCEPT !.isDefault = d]]
  /\ UNCHANGED currentCameraId

\* MemStorage.updateCameraSettings, lines 387-399, for one setting.
updateCameraSettings(id, n) ==
  /\ IF id \notin DOMAIN cameras
     THEN UNCHANGED cameras
     ELSE cameras' = [cameras EXCEPT ![id] = [@ EXCEPT !.nightMode = n]]
  /\ UNCHANGED currentCameraId

\* MemStorage.deleteCamera, lines 401-403.
deleteCamera(id) ==
  /\ cameras' = [k \in DOMAIN cameras \ {id} |-> cameras[k]]
  /\ UNCHANGED currentCameraId

CameraIds == 1..MaxCamera

NextStorage ==
  \/ \E d \in Flags : createCamera(d) /\ UNCHANGED notStore
  \/ \E id \in CameraIds, d \in Flags \cup {NoKey} : updateCamera(id, d) /\ UNCHANGED notStore
  \/ \E id \in CameraIds, n \in BOOLEAN : updateCameraSettings(id, n) /\ UNCHANGED notStore
  \/ \E id \in CameraIds : deleteCamera(id) /\ UNCHANGED notStore

SpecStorage == Init /\ [][NextStorage]_vars

\* ---------------------------------------------------------------- claims
\* The streamId a closure registers under.
sidOf(i) == streamId(rtspUrl[i])

\* C1: in every reachable state at most one ffmpeg that was spawned and has
\* neither exited nor been killed exists per source URL.
C1_OneSubprocessPerSource ==
  \A i, j \in Inst :
    (i # j /\ ffmpegProcess[i] = "running" /\ ffmpegProcess[j] = "running")
      => rtspUrl[i] # rtspUrl[j]

\* C2: a connect call that resumes from the listen await while a concurrent
\* call for the same URL has registered its stream spawns no second ffmpeg,
\* succeeds and returns the same port as that call.
C2_ConcurrentConnectsShareStream ==
  [][\A i \in Inst :
       (setupRtspStreamResume(i, "ok") /\ activeStreams[sidOf(i)] # NoInst)
         => /\ ffmpegProcess'[i] = "none"
            /\ pc'[i] = "done"
            /\ port[i] = streamPorts[sidOf(i)]]_vars

\* C3: a connect for a registered stream spawns nothing and closes no
\* viewer, and no timeout of that stream that was pending when the connect
\* ran ever kills the stream's ffmpeg or closes its viewers.
C3_ReconnectKeepsStream ==
  [][/\ \A u \in Urls :
          setupRtspStreamExisting(u)
            => ffmpegProcess' = ffmpegProcess /\ readyState' = readyState
     /\ \A t \in Timers :
          (idleTimeout(t) /\ reconnected[t])
            => /\ ffmpegProcess'[armedBy[t]] = ffmpegProcess[armedBy[t]]
               /\ \A v \in clients[armedBy[t]] :
                    readyState'[v] = readyState[v]]_vars

\* C4: when the timeout armed by the last viewer of a stream fires and no
\* connect and no attach for that source has run since it was armed, that
\* stream's ffmpeg is no longer running and the registry no longer contains
\* the source.
C4_IdleStreamIsReaped ==
  [][\A t \in Timers :
       (idleTimeout(t) /\ quiet[t])
         => /\ ffmpegProcess'[armedBy[t]] # "running"
            /\ activeStreams'[streamId(timerUrl[t])] = NoInst]_vars

\* C5: a timeout that fires tears a stream down only if the stream's viewer
\* set is empty at that moment.
C5_ReaperSparesViewedStream ==
  [][\A t \in Timers, i \in Inst :
       (idleTimeout(t) /\ activeStreams[streamId(timerUrl[t])] = i)
         => clients[i] = {}]_vars

\* C6: when the ffmpeg of the registered stream exits, with any code, the
\* registry entry of its source is removed and no ffmpeg starts in that
\* step, so the next connect takes the spawning path; and a connect returns
\* an existing endpoint only of a stream whose ffmpeg is running.
C6_ExitRemovesEntryNoRestart ==
  [][/\ \A i \in Inst, code \in ExitCodes :
          (ffmpegClose(i, code) /\ activeStreams[sidOf(i)] = i)
            => /\ activeStreams'[sidOf(i)] = NoInst
               /\ \A k \in Inst :
                    ffmpegProcess'[k] = "running" => ffmpegProcess[k] = "running"
     /\ \A u \in Urls :
          setupRtspStreamExisting(u)
            => ffmpegProcess[activeStreams[streamId(u)]] = "running"]_vars

\* C6 witness: the ffmpeg of a stream with two viewers has exited and a
\* later connect for the same URL has spawned and registered a new ffmpeg.
C6_Witness ==
  \E i, j \in Inst :
    /\ i # j
    /\ ffmpegProcess[i] = "closed"
    /\ Cardinality(clients[i]) >= 2
    /\ rtspUrl[j] = rtspUrl[i]
    /\ ffmpegProcess[j] = "running"
    /\ activeStreams[sidOf(j)] = j

\* C7: when the ffmpeg of a stream exits, every viewer connection of that
\* stream is closed by the relay: none stays open after the handler.
C7_ExitClosesViewers ==
  [][\A i \in Inst, code \in ExitCodes :
       ffmpegClose(i, code)
         => \A v \in clients[i] : readyState'[v] # "OPEN"]_vars

\* C8: the close handler of a stream that disconnectStream has killed
\* leaves that stream fully removed and leaves the registry entry, port and
\* ffmpeg of every other stream unchanged.
C8_LateCloseTouchesOnlyItsStream ==
  [][\A i \in Inst, code \in ExitCodes :
       (ffmpegClose(i, code) /\ ffmpegProcess[i] = "killed")
         => /\ ffmpegProcess'[i] \notin {"running", "killed"}
            /\ server'[i] # "listening"
            /\ \A j \in Inst \ {i} :
                 activeStreams[sidOf(j)] = j
                   => /\ activeStreams'[sidOf(j)] = j
                      /\ streamPorts'[sidOf(j)] = streamPorts[sidOf(j)]
                      /\ ffmpegProcess'[j] = ffmpegProcess[j]]_vars

\* C9: a connect that fails, because the listener cannot bind or because
\* ffmpeg cannot be started, is rejected to its caller, and afterwards
\* neither the registry nor the port table has an entry for its source.
C9_FailedConnectLeavesNothing ==
  [][\A i \in Inst :
       (\/ setupRtspStreamListenError(i)
        \/ \E o \in SpawnOutcomes \ {"ok"} : setupRtspStreamResume(i, o))
         => /\ pc'[i] # "done"
            /\ activeStreams'[sidOf(i)] = NoInst
            /\ streamPorts'[sidOf(i)] = NoPort]_vars

\* C10: a connect whose URL fails isValidRtspUrl never reaches the relay:
\* no call of setupRtspStream, hence no server, ffmpeg or registry entry,
\* exists for it.
C10_InvalidUrlNeverReachesRelay ==
  \A i \in Inst :
    pc[i] # "unused" => isValidRtspUrl(UrlText(rtspUrl[i]))

\* The endpoint the lookup path returns, line 34: the port of the port table.
existingEndpoint(u) == streamPorts[streamId(u)]

\* C11: a connect for a registered source returns the port its registering
\* call returned, spawns nothing and leaves every viewer set, the registry
\* and the port table unchanged; of the timers it changes only the handle
\* stored in the StreamInfo, which it cancels.
C11_ConnectIsIdempotent ==
  [][\A u \in Urls :
       setupRtspStreamExisting(u)
         => LET i == activeStreams[streamId(u)]
                t == lastClientDisconnectTimeout[i]
            IN /\ existingEndpoint(u) = port[i]
               /\ existingEndpoint(u) \in Ports
               /\ ffmpegProcess' = ffmpegProcess
               /\ pc' = pc
               /\ clients' = clients
               /\ readyState' = readyState
               /\ activeStreams' = activeStreams
               /\ streamPorts' = streamPorts
               /\ server' = server /\ wsServer' = wsServer
               /\ lastClientDisconnectTimeout'[i] = NoTimer
               /\ \A k \in Timers :
                    /\ k # t => timer'[k] = timer[k]
                    /\ k = t => timer'[k] = "idle"]_vars

\* C11 witness: a connect has run for a registered stream while a countdown
\* of it was pending, and the stream is still registered and running with
\* no handle stored.
C11_Witness ==
  \E k \in Timers :
    /\ reconnected[k]
    /\ activeStreams[sidOf(armedBy[k])] = armedBy[k]
    /\ ffmpegProcess[armedBy[k]] = "running"
    /\ lastClientDisconnectTimeout[armedBy[k]] = NoTimer

\* The status of the response of POST /api/stream/disconnect, routes.ts
\* 326-339, when disconnectStream does not throw.
disconnectStatus(u) == IF hasRtspUrl(u) THEN "200 success" ELSE "400"

C13_StatusFromPingAndPort ==
  diagPc \in {"returned", "responded"} =>
    LET ping == pingResults = "success"
        open == portCheck = "true"
    IN /\ diagnostics.status = "success" <=> (ping /\ open)
       /\ diagnostics.status = "partial" <=> (ping # open)
       /\ diagnostics.status = "failure" <=> (~ping /\ ~open)
       /\ diagnostics.isReachable = ping
       /\ diagnostics.isPortOpen = open

\* C13 witness: a run returned 'partial' from a closed port although
\* traceroute failed and the internet check succeeded.
C13_Witness ==
  /\ diagPc = "returned"
  /\ diagnostics.status = "partial"
  /\ pingResults = "success" /\ portCheck = "false"
  /\ traceResults = "message" /\ internetCheck = "true"

\* C14: the list returned holds exactly the messages of the rules that
\* hold, in the order (a) different networks, (b) no internet, (c) camera
\* unreachable, (d) reachable with port closed, and the fallback (e) alone
\* when none holds and the status is not success; a camera on the server's
\* /24 that answers ping with its port closed gets (d) and not (a).
C14_SuggestionsFollowRules ==
  diagPc = "responded" =>
    LET holds == [m \in {MsgDifferentNetworks, MsgNoInternet, MsgCannotReach,
                         MsgPortClosed} |->
                   CASE m = MsgDifferentNetworks ->
                          getNetworkFromIp(diagnostics.ipAddress)
                            # getNetworkFromIp(cameraIp)
                     [] m = MsgNoInternet -> ~diagnostics.isConnectedToInternet
                     [] m = MsgCannotReach -> ~diagnostics.isReachable
                     [] m = MsgPortClosed ->
                          diagnostics.isReachable /\ ~diagnostics.isPortOpen]
        fired(m) == holds[m]
        rules == SelectSeq(<<MsgDifferentNetworks, MsgNoInternet,
                             MsgCannotReach, MsgPortClosed>>, fired)
    IN /\ suggestions =
            IF rules = << >> /\ diagnostics.status # "success"
            THEN <<MsgFallback>> ELSE rules
       /\ (/\ cameraIp = IpCamera /\ diagnostics.ipAddress = IpSameNet
           /\ diagnostics.isReachable /\ ~diagnostics.isPortOpen)
            => /\ \E k \in 1..Len(suggestions) : suggestions[k] = MsgPortClosed
               /\ \A k \in 1..Len(suggestions) :
                    suggestions[k] # MsgDifferentNetworks
       /\ (cameraIp = IpCamera /\ diagnostics.ipAddress = IpOtherNet)
            => suggestions[1] = MsgDifferentNetworks

\* C14 witness: for 192.168.18.10 reachable with its port closed, seen from
\* 192.168.18.5 with internet, the answer is the port-closed message alone.
C14_Witness ==
  /\ diagPc = "responded"
  /\ cameraIp = IpCamera /\ diagnostics.ipAddress = IpSameNet
  /\ diagnostics.status = "partial"
  /\ diagnostics.isReachable /\ ~diagnostics.isPortOpen
  /\ diagnostics.isConnectedToInternet
  /\ suggestions = <<MsgPortClosed>>

\* C15: runNetworkDiagnostics never throws because a probe failed: no probe
\* promise is ever rejected and the call never ends rejected.
C15_DiagnoseNeverThrows ==
  /\ portCheck # "rejected"
  /\ diagPc # "rejected"

\* C16: a diagnostics run always returns: as long as it has not returned
\* (or thrown), some probe can still complete or the join can run, so no
\* run is ever left waiting for a probe that will not end.
C16_DiagnoseAlwaysReturns ==
  diagPc = "running" =>
    \/ ENABLED runNetworkDiagnosticsJoin
    \/ ENABLED runNetworkDiagnosticsReject
    \/ \E ok \in BOOLEAN : ENABLED pingHost(ok)
    \/ \E ok \in BOOLEAN : ENABLED traceroute(ok)
    \/ \E ok \in BOOLEAN : ENABLED checkInternetConnectivity(ok)
    \/ ENABLED socketConnect
    \/ ENABLED socketError
    \/ ENABLED socketTimeout

\* C17: for a URL written with credentials, parseRtspUrl splits them from
\* the host at the last '@' before the host: the password returned is the
\* one the URL was written with, also when it contains '@', the host is the
\* host written, and the host returned never contains '@'.
C17_ParseSplitsAtLastAt ==
  ("parseRtspUrl" \in called /\ password # undefined) =>
    /\ parsed.password = password
    /\ parsed.host \in CodecHosts
    /\ \A k \in 1..Len(parsed.host) : parsed.host[k] # "@"

\* t occurs in s as a substring.
contains(s, t) ==
  \E k \in 1..(Len(s) - Len(t) + 1) : SubSeq(s, k, k + Len(t) - 1) = t

\* C18: for a valid URL written with credentials, maskRtspUrl(url) does not
\* contain the password as a substring.
C18_MaskHidesPassword ==
  (/\ "maskRtspUrl" \in called
   /\ password # undefined
   /\ isValidRtspUrl(url))
    => ~contains(masked, password)

\* C19: once the exit of the ffmpeg of a registered stream has been
\* handled, nothing of its source remains: no registry entry, no port
\* entry and no pending timeout for its URL.
C19_ExitLeavesNoState ==
  [][\A i \in Inst, code \in ExitCodes :
       (ffmpegClose(i, code) /\ activeStreams[sidOf(i)] = i)
         => /\ activeStreams'[sidOf(i)] = NoInst
            /\ streamPorts'[sidOf(i)] = NoPort
            /\ \A t \in Timers :
                 ~(timer'[t] = "pending" /\ timerUrl'[t] = rtspUrl[i])]_vars

\* C20: when a chunk is broadcast, every open client of the stream is sent
\* it, whatever the state of the other clients, and a client that is not
\* open is dropped from the set of clients.
C20_BroadcastIsolatesAndDrops ==
  [][\A i \in Inst :
       stdoutData(i)
         => /\ \A v \in clients[i] :
                 readyState[v] = "OPEN"
                   => received'[v] = Append(received[v], produced'[i])
            /\ \A v \in clients[i] :
                 readyState[v] # "OPEN" => v \notin clients'[i]]_vars

\* C21: what a socket in a stream's set has been sent is, in order and once
\* each, the 'data' events of that stream's ffmpeg that came after the socket
\* was accepted, none from before; while the socket is open none is missing.
C21_FramesInOrderOnce ==
  \A i \in Inst : \A v \in clients[i] :
    /\ \A k \in 1..Len(received[v]) : received[v][k] = attachedAt[v] + k
    /\ readyState[v] = "OPEN" => attachedAt[v] + Len(received[v]) = produced[i]

\* C21 witness: of two open sockets of one stream, one accepted before the
\* first chunk has been sent both chunks, the other, accepted after the
\* first chunk, only the second.
C21_Witness ==
  \E i \in Inst : \E v, w \in clients[i] :
    /\ readyState[v] = "OPEN" /\ readyState[w] = "OPEN"
    /\ produced[i] = 2
    /\ attachedAt[v] = 0 /\ received[v] = <<1, 2>>
    /\ attachedAt[w] = 1 /\ received[w] = <<2>>

\* C22: the promise of the port probe is settled by the first event whose
\* listener runs, true for 'connect' and false for 'error' and 'timeout',
\* and keeps that value whatever events follow, in every order of the three.
C22_ProbeResolvesOnce ==
  (diagPc = "running" /\ validPort(rtspPort)) =>
    IF events = << >>
    THEN portCheck = "pending" /\ ~resolved
    ELSE /\ portCheck = IF events[1] = "connect" THEN "true" ELSE "false"
         /\ resolved

\* C22 witness: 'timeout' came first and settled the probe to false, and
\* the listeners of 'connect' and 'error' ran after it.
C22_Witness ==
  /\ events = <<"timeout", "connect", "error">>
  /\ portCheck = "false"

\* C23: whenever the promise of the port probe is fulfilled, by 'connect',
\* 'error' or 'timeout', its socket has been destroyed.
C23_ProbeReleasesSocket ==
  /\ portCheck \in {"true", "false"} => socket = "destroyed"
  /\ resolved => socket = "destroyed"

\* C23 witness: the probe was settled by 'error', whose listener does not
\* call destroy itself, and the socket is destroyed.
C23_Witness ==
  /\ events = <<"error">>
  /\ portCheck = "false"
  /\ socket = "destroyed"

\* A step of a diagnostics request: the start of runNetworkDiagnostics, the
\* end of one of its probes, its return, or the end of the route.
diagnoseStep ==
  \/ \E ip \in CameraIps, p \in RtspPorts, sip \in ServerIps :
       runNetworkDiagnosticsStart(ip, p, sip)
  \/ \E ok \in BOOLEAN : pingHost(ok) \/ traceroute(ok) \/ checkInternetConnectivity(ok)
  \/ socketConnect \/ socketError \/ socketTimeout
  \/ runNetworkDiagnosticsJoin
  \/ runNetworkDiagnosticsReject
  \/ diagnosticsRespond

\* C24: no step of a diagnostics request changes the registry, the port
\* table, a subprocess, a viewer set or a countdown (or anything else of
\* the relay); the step that ends the request appends one notification and
\* every other step leaves the notifications as they are.
C24_DiagnoseLeavesRelayUntouched ==
  [][diagnoseStep =>
       /\ UNCHANGED relay
       /\ IF runNetworkDiagnosticsReject \/ diagnosticsRespond
          THEN /\ Len(notifications') = Len(notifications) + 1
               /\ SubSeq(notifications', 1, Len(notifications)) = notifications
          ELSE notifications' = notifications]_vars

\* C24 witness: a request has been answered and its notification stored
\* while the camera's stream is registered with its ffmpeg running, a port
\* entry and a countdown pending, and a viewer is attached to a stream.
C24_Witness ==
  /\ diagPc = "responded"
  /\ diagnostics.status = "failure"
  /\ notifications = <<[title |-> "Network Diagnostics Completed", type |-> "alert"]>>
  /\ \E i \in Inst :
       /\ activeStreams[streamId(UrlCam)] = i
       /\ ffmpegProcess[i] = "running"
       /\ streamPorts[streamId(UrlCam)] = port[i]
       /\ lastClientDisconnectTimeout[i] # NoTimer
       /\ \E j \in Inst : clients[j] # {}

\* The stored cameras whose isDefault is true.
defaults(cs) == {k \in DOMAIN cs : cs[k].isDefault = "true"}

\* C25: after every createCamera, updateCamera, updateCameraSettings and
\* deleteCamera at most one stored camera has isDefault = true, and a create
\* or update with isDefault = true leaves that camera the only default.
C25_AtMostOneDefault ==
  [][/\ Cardinality(defaults(cameras')) <= 1
     /\ createCamera("true") => defaults(cameras') = {currentCameraId}
     /\ \A id \in DOMAIN cameras :
          updateCamera(id, "true") => defaults(cameras') = {id}]_vars

\* C25 witness: three cameras are stored, the default is the second and the
\* first, once a default, has had its flag removed.
C25_Witness ==
  /\ DOMAIN cameras = {1, 2, 3}
  /\ cameras[1].isDefault = "false"
  /\ cameras[2].isDefault = "true"
  /\ cameras[3].isDefault = "unset"

\* C26: every ffmpeg that is running (spawned, not killed, not exited) is
\* the one of the stream registered for its source.
C26_NoOrphanedSubprocess ==
  \A i \in Inst :
    ffmpegProcess[i] = "running" => activeStreams[sidOf(i)] = i

\* C27: a close event that arms a countdown arms it on the stream whose set
\* the closing socket was in: the registered stream that gets the handle is
\* that socket's own stream, never a newer one registered under the same URL;
\* the close of a socket whose stream's ffmpeg was killed or has exited arms
\* nothing.
C27_CloseArmsOwnStreamOnly ==
  [][\A v \in Viewers :
       /\ (wsClose(v) /\ arms(v))
            => activeStreams[sidOf(closureOf(v))] = closureOf(v)
       /\ (wsClose(v) /\ ffmpegProcess[closureOf(v)] # "running")
            => UNCHANGED <<timer, lastClientDisconnectTimeout>>]_vars

\* C28: every pending timeout is the handle stored in the StreamInfo that
\* is registered for its source, where a later connect finds and clears it.
C28_PendingCountdownIsStored ==
  \A t \in Timers :
    timer[t] = "pending" =>
      /\ activeStreams[streamId(timerUrl[t])] # NoInst
      /\ lastClientDisconnectTimeout[activeStreams[streamId(timerUrl[t])]] = t

\* Closure i is the stream registered for its source and its ffmpeg runs.
registered(i) ==
  /\ pc[i] = "done"
  /\ activeStreams[sidOf(i)] = i
  /\ ffmpegProcess[i] = "running"

\* C29: a registered stream with no viewer is eventually torn down unless a
\* viewer attaches to it: whether no viewer ever attached, or the countdown
\* was cleared by a connect, or the last viewer left. The end of the Node
\* process tears every stream down.
C29_IdleStreamEventuallyTornDown ==
  \A i \in Inst :
    (registered(i) /\ clients[i] = {})
      ~> (clients[i] # {} \/ ~registered(i) \/ ~alive)

\* C30: for every result a run of the diagnostics produces, a status other
\* than 'success' gets a non-empty list of suggestions that holds the
\* camera-unreachable or the port-closed message, and no answer at all holds
\* the fallback message.
C30_FallbackNeverEmitted ==
  diagPc = "responded" =>
    LET said(m) == \E k \in 1..Len(suggestions) : suggestions[k] = m
    IN /\ ~said(MsgFallback)
       /\ diagnostics.status # "success" =>
            /\ Len(suggestions) > 0
            /\ said(MsgCannotReach) \/ said(MsgPortClosed)
            /\ said(MsgCannotReach) <=> ~diagnostics.isReachable
            /\ said(MsgPortClosed) <=> diagnostics.isReachable

\* C30 witness: ping failed and the port probe connected, on the server's
\* network with internet: the status is 'partial' and the camera-unreachable
\* message is the only suggestion.
C30_Witness ==
  /\ diagPc = "responded"
  /\ pingResults = "failure" /\ portCheck = "true"
  /\ diagnostics.status = "partial"
  /\ cameraIp = IpCamera /\ diagnostics.ipAddress = IpSameNet
  /\ diagnostics.isConnectedToInternet
  /\ suggestions = <<MsgCannotReach>>

====
